---- MODULE Spec2Model ----
(***************************************************************************)
(* tasker: a command-line task manager backed by one SQLite table.         *)
(*                                                                         *)
(* The model keeps the rows of the tasks table, the AUTOINCREMENT counter  *)
(* of the table, the wall clock, the process-wide handle database.DB, the  *)
(* records of the exported CSV file and a record of what the last          *)
(* operation was given, returned and printed.                              *)
(* Text values (titles, descriptions, command-line arguments) are          *)
(* sequences of one-character strings.                                     *)
(*                                                                         *)
(* Spec      the commands of the program on an initialized store           *)
(* SpecCsv   add, export and read back of texts with CSV special bytes     *)
(* SpecExec  the processes from InitDB to their exit, one after another    *)
(* SpecConc  goroutines that insert at the same time through database.DB   *)
(* SpecCalls the functions of package cmd on an open or a closed handle    *)
(* SpecDone  done commands of several processes, find and update apart     *)
(***************************************************************************)
EXTENDS Integers, Sequences, FiniteSets, TLC

VARIABLES tasks, seq, now, DB, file, last, schema, exec, lock, callers

\* The run of Execute in progress: whether the tasks table exists in
\* tasker.db and how far Execute has come
execVars == <<schema, exec>>

\* The goroutines that call database.DB.Exec at the same time and the write
\* lock of the database file
concVars == <<lock, callers>>

vars == <<tasks, seq, now, DB, file, last, execVars, concVars>>

---------------------------------------------------------------------------
(* Bounds of the model *)

MaxTasks == 2

MaxTime == 2

\* Clock readings per second: time.Now() is finer than the one-second
\* resolution of the printed timestamps
TicksPerSecond == 2

---------------------------------------------------------------------------
(* Text *)

\* The (title, description) pairs given to "add": a task with both texts and
\* a task with neither
AddArgs == { << <<"a">>, <<"d">> >>, << <<>>, <<>> >> }

Digits == <<"0", "1", "2", "3", "4", "5", "6", "7", "8", "9">>

DigitVal(c) == (CHOOSE i \in 1..10 : Digits[i] = c) - 1

IsDigit(c) == \E i \in 1..10 : Digits[i] = c

\* strconv.Itoa for the non-negative numbers the table holds
RECURSIVE Itoa(_)
Itoa(n) == IF n < 10 THEN <<Digits[n + 1]>>
           ELSE Itoa(n \div 10) \o <<Digits[(n % 10) + 1]>>

\* The decimal value of a text made of digits
RECURSIVE DecimalValue(_)
DecimalValue(s) == IF s = <<>> THEN 0
                   ELSE 10 * DecimalValue(SubSeq(s, 1, Len(s) - 1))
                        + DigitVal(s[Len(s)])

NoRowId == -1

\* WHERE id = ? with the argument bound as text: the INTEGER column makes
\* SQLite convert a text that is a number to that number; any other text
\* equals no integer.
IdOfText(s) == IF s # <<>> /\ \A i \in 1..Len(s) : IsDigit(s[i])
               THEN DecimalValue(s)
               ELSE NoRowId

\* The command-line arguments tried for "done [id]"
IdArgs == {Itoa(n) : n \in 0..MaxTasks} \cup {<<"0", "1">>, <<"x">>}

---------------------------------------------------------------------------
(* The task entity and the table *)

\* A *time.Time: <<>> is nil, <<t>> points to the instant t
NilTime == <<>>

\* The zero value of models.Task
ZeroTask == [id |-> 0, title |-> <<>>, description |-> <<>>, done |-> FALSE,
             created_at |-> 0, completed_at |-> NilTime]

\* A *models.Task: <<>> is nil, <<t>> points to t
NilTask == <<>>

\* Mutation: the description argument is not bound to its column
NewRowNoDescription(rowid, title, description, t) ==
    [id |-> rowid, title |-> title, description |-> <<>>,
     done |-> FALSE, created_at |-> t, completed_at |-> NilTime]

\* Mutation: completed_at is filled on insert like created_at
NewRowCompletedOnInsert(rowid, title, description, t) ==
    [id |-> rowid, title |-> title, description |-> description,
     done |-> FALSE, created_at |-> t, completed_at |-> <<t>>]

\* The row INSERT INTO tasks (title, description, created_at) makes: id from
\* AUTOINCREMENT, done from DEFAULT FALSE, completed_at NULL
NewRow(rowid, title, description, t) ==
    [id |-> rowid, title |-> title, description |-> description,
     done |-> FALSE, created_at |-> t, completed_at |-> NilTime]

\* Mutation: the id counter does not advance past the first id
NextRowIdStuck(counter) == IF counter = 0 THEN 1 ELSE counter

\* Mutation: the id counter advances by two
NextRowIdSkips(counter) == counter + 2

\* INTEGER PRIMARY KEY AUTOINCREMENT: one more than the largest id ever used
NextRowId(counter) == counter + 1

RECURSIVE SelectWhereId(_, _)
SelectWhereId(tbl, rowid) ==
    IF tbl = <<>> THEN <<>>
    ELSE (IF Head(tbl).id = rowid THEN <<Head(tbl)>> ELSE <<>>)
         \o SelectWhereId(Tail(tbl), rowid)

\* Mutation: the UPDATE sets the flag and leaves completed_at alone
UpdateDoneFlagOnly(tbl, rowid, t) ==
    [i \in 1..Len(tbl) |->
        IF tbl[i].id = rowid THEN [tbl[i] EXCEPT !.done = TRUE] ELSE tbl[i]]

\* Mutation: the UPDATE is guarded by done = FALSE
UpdateDoneIfIncomplete(tbl, rowid, t) ==
    [i \in 1..Len(tbl) |->
        IF tbl[i].id = rowid /\ ~tbl[i].done
        THEN [tbl[i] EXCEPT !.done = TRUE, !.completed_at = <<t>>]
        ELSE tbl[i]]

\* Mutation: the UPDATE toggles the flag
UpdateDoneToggle(tbl, rowid, t) ==
    [i \in 1..Len(tbl) |->
        IF tbl[i].id = rowid
        THEN [tbl[i] EXCEPT !.done = ~tbl[i].done, !.completed_at = <<t>>]
        ELSE tbl[i]]

\* Mutation: the UPDATE has no WHERE clause
UpdateDoneAllRows(tbl, rowid, t) ==
    [i \in 1..Len(tbl) |-> [tbl[i] EXCEPT !.done = TRUE, !.completed_at = <<t>>]]

\* UPDATE tasks SET done = TRUE, completed_at = ? WHERE id = ?
UpdateDone(tbl, rowid, t) ==
    [i \in 1..Len(tbl) |->
        IF tbl[i].id = rowid
        THEN [tbl[i] EXCEPT !.done = TRUE, !.completed_at = <<t>>]
        ELSE tbl[i]]

\* Mutation: a closed handle runs statements as an open one does
StatementRunsOnClosed(db) == TRUE

\* A statement on the handle succeeds only while the handle is open
StatementRuns(db) == db = "open"

\* Mutation: the rows a query has read are removed
QueryConsumesRows(tbl, db) == IF db = "open" THEN <<>> ELSE tbl

\* database.DB.Query of a SELECT: the table after the query, which reads
\* rows and writes none, whether it succeeds or fails
Query(tbl, db) == tbl

---------------------------------------------------------------------------
(* The functions of package cmd *)

\* addTask: the table and counter after the INSERT, and the error returned
addTask(title, description, tbl, counter, db, t) ==
    IF ~StatementRuns(db)
    THEN [tasks |-> tbl, seq |-> counter, err |-> TRUE]
    ELSE [tasks |-> Append(tbl, NewRow(NextRowId(counter), title, description, t)),
          seq |-> NextRowId(counter), err |-> FALSE]

\* The loop of findTaskById: every row scanned overwrites the task
RECURSIVE ScanInto(_, _)
ScanInto(task, rows) ==
    IF rows = <<>> THEN task ELSE ScanInto(Head(rows), Tail(rows))

\* findTaskById: (pointer, error)
findTaskById(id, tbl, db) ==
    IF ~StatementRuns(db)
    THEN [task |-> NilTask, err |-> TRUE]
    ELSE [task |-> <<ScanInto(ZeroTask, SelectWhereId(tbl, IdOfText(id)))>>,
          err |-> FALSE]

\* Mutation: the first row is consumed before the scan loop
listTasksSkipsFirstRow(tbl, db) ==
    IF ~StatementRuns(db)
    THEN [tasks |-> <<>>, err |-> TRUE]
    ELSE [tasks |-> IF tbl = <<>> THEN <<>> ELSE Tail(tbl), err |-> FALSE]

\* listTasks: (slice, error)
listTasks(tbl, db) ==
    IF ~StatementRuns(db)
    THEN [tasks |-> <<>>, err |-> TRUE]
    ELSE [tasks |-> tbl, err |-> FALSE]

NotAvailable == <<"N", "/", "A">>

\* printTask: the lines written before the function returns or faults.
\* Dereferencing a nil CompletedAt is a runtime fault; Title, Description and
\* Created At have been written by then.
printTask(task) ==
    LET d == IF task.description = <<>> THEN NotAvailable ELSE task.description
    IN  [shown |-> <<[title |-> task.title, description |-> d,
                      created_at |-> task.created_at,
                      completed_at |-> task.completed_at]>>,
         panicked |-> task.completed_at = NilTime]

NothingShown == <<>>

\* markTaskAsDone: the table after the call, what it printed and whether it
\* ended in a runtime fault
markTaskAsDone(ptr, tbl, db, t) ==
    IF ptr = NilTask
    THEN [tasks |-> tbl, msg |-> "Task not found!", shown |-> NothingShown,
          panicked |-> FALSE]
    ELSE IF ~StatementRuns(db)
    THEN [tasks |-> tbl, msg |-> "Error marking task as done",
          shown |-> NothingShown, panicked |-> FALSE]
    ELSE LET p == printTask(ptr[1])
         IN  [tasks |-> UpdateDone(tbl, ptr[1].id, t),
              msg |-> "Task marked as done",
              shown |-> p.shown, panicked |-> p.panicked]

\* Mutation: the Run function without the task.Done branch
doneRunNoDoneCheck(id, tbl, db, t) ==
    LET f == findTaskById(id, tbl, db)
    IN  IF f.err
        THEN [tasks |-> tbl, msg |-> "Error finding task",
              shown |-> NothingShown, panicked |-> FALSE]
        ELSE IF f.task[1].id = 0
        THEN [tasks |-> tbl, msg |-> "Task not found",
              shown |-> NothingShown, panicked |-> FALSE]
        ELSE markTaskAsDone(f.task, tbl, db, t)

\* Mutation: the Run function tests the pointer for nil instead of ID for 0
doneRunNilCheck(id, tbl, db, t) ==
    LET f == findTaskById(id, tbl, db)
    IN  IF f.err
        THEN [tasks |-> tbl, msg |-> "Error finding task",
              shown |-> NothingShown, panicked |-> FALSE]
        ELSE IF f.task = NilTask
        THEN [tasks |-> tbl, msg |-> "Task not found",
              shown |-> NothingShown, panicked |-> FALSE]
        ELSE IF f.task[1].done
        THEN LET p == printTask(f.task[1])
             IN  [tasks |-> tbl, msg |-> "Task already done",
                  shown |-> p.shown, panicked |-> p.panicked]
        ELSE markTaskAsDone(f.task, tbl, db, t)

\* The Run function of doneCmd
doneRun(id, tbl, db, t) ==
    LET f == findTaskById(id, tbl, db)
    IN  IF f.err
        THEN [tasks |-> tbl, msg |-> "Error finding task",
              shown |-> NothingShown, panicked |-> FALSE]
        ELSE IF f.task[1].id = 0
        THEN [tasks |-> tbl, msg |-> "Task not found",
              shown |-> NothingShown, panicked |-> FALSE]
        ELSE IF f.task[1].done
        THEN LET p == printTask(f.task[1])
             IN  [tasks |-> tbl, msg |-> "Task already done",
                  shown |-> p.shown, panicked |-> p.panicked]
        ELSE markTaskAsDone(f.task, tbl, db, t)

\* getAllTasks: (slice, error)
getAllTasks(tbl, db) ==
    IF ~StatementRuns(db)
    THEN [tasks |-> <<>>, err |-> TRUE]
    ELSE [tasks |-> tbl, err |-> FALSE]

\* strconv.FormatBool
FormatBool(b) == IF b THEN <<"t", "r", "u", "e">> ELSE <<"f", "a", "l", "s", "e">>

\* Time.Format("2006-01-02 15:04:05"): the instant cut to whole seconds
FormatTime(t) == Itoa(t \div TicksPerSecond)

Header == << <<"I", "D">>, <<"T", "i", "t", "l", "e">>,
            <<"D", "e", "s", "c", "r", "i", "p", "t", "i", "o", "n">>,
            <<"D", "o", "n", "e">>,
            <<"C", "r", "e", "a", "t", "e", "d", " ", "A", "t">>,
            <<"C", "o", "m", "p", "l", "e", "t", "e", "d", " ", "A", "t">> >>

\* Mutation: an absent completed_at is written as N/A, as the list command
\* prints it
RecordNotAvailable(task) ==
    << Itoa(task.id), task.title, task.description, FormatBool(task.done),
       FormatTime(task.created_at),
       IF task.completed_at # NilTime THEN FormatTime(task.completed_at[1])
       ELSE NotAvailable >>

\* The record exportTasks writes for one task
Record(task) ==
    << Itoa(task.id), task.title, task.description, FormatBool(task.done),
       FormatTime(task.created_at),
       IF task.completed_at # NilTime THEN FormatTime(task.completed_at[1])
       ELSE <<>> >>

---------------------------------------------------------------------------
(* encoding/csv: the Writer *)

Comma == ","
Quote == "\""
LF == "\n"
CR == "\r"
Space == " "

\* Mutation: only the delimiter makes a field quoted
fieldNeedsQuotesCommaOnly(field) ==
    \E i \in 1..Len(field) : field[i] = Comma

\* csv.Writer.fieldNeedsQuotes
fieldNeedsQuotes(field) ==
    IF field = <<>> THEN FALSE
    ELSE IF field = <<"\\", ".">> THEN TRUE
    ELSE \/ \E i \in 1..Len(field) : field[i] \in {LF, CR, Quote, Comma}
         \/ field[1] \in {Space, "\t", "\f"}

\* The inside of a quoted field: every double quote is doubled, carriage
\* returns and line feeds are written as they are (UseCRLF is false)
RECURSIVE quoted(_)
quoted(field) ==
    IF field = <<>> THEN <<>>
    ELSE (IF field[1] = Quote THEN <<Quote, Quote>> ELSE <<field[1]>>)
         \o quoted(Tail(field))

writeField(field) ==
    IF fieldNeedsQuotes(field) THEN <<Quote>> \o quoted(field) \o <<Quote>>
    ELSE field

\* csv.Writer.Write: the fields separated by commas, then a line feed
RECURSIVE writeFields(_)
writeFields(record) ==
    IF Len(record) = 1 THEN writeField(record[1])
    ELSE writeField(record[1]) \o <<Comma>> \o writeFields(Tail(record))

csvWrite(record) ==
    (IF record = <<>> THEN <<>> ELSE writeFields(record)) \o <<LF>>

\* The bytes of the file after writer.Flush and file.Close
RECURSIVE FileBytes(_)
FileBytes(records) ==
    IF records = <<>> THEN <<>>
    ELSE csvWrite(records[1]) \o FileBytes(Tail(records))

---------------------------------------------------------------------------
(* The export *)

\* The bytes the bufio.Writer under csv.Writer holds back before it writes
\* to the file
BufferSize == 4096

\* No file at the output path
NoFile == <<>>

\* Mutation: the header is written only when there are tasks
exportTasksHeaderIfTasks(tbl, db, old, creatable, writable) ==
    LET g == getAllTasks(tbl, db)
    IN  IF g.err
        THEN [file |-> old, err |-> "failed to fetch tasks"]
        ELSE IF ~creatable
        THEN [file |-> old, err |-> "failed to create CSV file"]
        ELSE [file |-> (IF g.tasks = <<>> THEN <<>> ELSE <<Header>>)
                        \o [i \in 1..Len(g.tasks) |-> Record(g.tasks[i])],
              err |-> ""]

\* Mutation: the error of os.Create is dropped
exportTasksIgnoresCreateError(tbl, db, old, creatable, writable) ==
    LET g == getAllTasks(tbl, db)
    IN  IF g.err
        THEN [file |-> old, err |-> "failed to fetch tasks"]
        ELSE IF ~creatable
        THEN [file |-> old, err |-> ""]
        ELSE [file |-> <<Header>> \o [i \in 1..Len(g.tasks) |-> Record(g.tasks[i])],
              err |-> ""]

\* Mutation: the output file is opened for appending instead of truncated
exportTasksAppends(tbl, db, old, creatable, writable) ==
    LET g == getAllTasks(tbl, db)
    IN  IF g.err
        THEN [file |-> old, err |-> "failed to fetch tasks"]
        ELSE IF ~creatable
        THEN [file |-> old, err |-> "failed to create CSV file"]
        ELSE [file |-> old \o <<Header>>
                        \o [i \in 1..Len(g.tasks) |-> Record(g.tasks[i])],
              err |-> ""]

\* Mutation: the output file is created before the tasks are fetched
exportTasksCreatesFirst(tbl, db, old, creatable, writable) ==
    LET g == getAllTasks(tbl, db)
    IN  IF ~creatable
        THEN [file |-> old, err |-> "failed to create CSV file"]
        ELSE IF g.err
        THEN [file |-> <<>>, err |-> "failed to fetch tasks"]
        ELSE [file |-> <<Header>> \o [i \in 1..Len(g.tasks) |-> Record(g.tasks[i])],
              err |-> ""]

\* exportTasks: the records of the output file after the call and the error
\* returned. creatable tells whether os.Create succeeds on the output path,
\* writable whether the file it returns takes the bytes written to it.
\* os.Create leaves an empty file. The records go to the buffer of the
\* writer; bytes reach the file when the buffer is full, which makes a later
\* Write return the error of the file, and at the deferred Flush, whose
\* error nobody reads. An empty file holds no record, as no file does.
exportTasks(tbl, db, old, creatable, writable) ==
    LET g == getAllTasks(tbl, db)
        records == <<Header>> \o [i \in 1..Len(g.tasks) |-> Record(g.tasks[i])]
    IN  IF g.err
        THEN [file |-> old, err |-> "failed to fetch tasks"]
        ELSE IF ~creatable
        THEN [file |-> old, err |-> "failed to create CSV file"]
        ELSE IF writable
        THEN [file |-> records, err |-> ""]
        ELSE IF Len(FileBytes(records)) > BufferSize
        THEN [file |-> <<>>, err |-> "failed to write task record"]
        ELSE [file |-> <<>>, err |-> ""]

---------------------------------------------------------------------------
(* Package database: the handle *)

\* Mutation: the table is dropped and created again
createTablesDropsTable(tbl, counter, exists) ==
    [tasks |-> <<>>, seq |-> 0, schema |-> TRUE]

\* createTables: CREATE TABLE IF NOT EXISTS makes an empty table with a new
\* AUTOINCREMENT counter when there is none and touches nothing otherwise
createTables(tbl, counter, exists) ==
    IF exists
    THEN [tasks |-> tbl, seq |-> counter, schema |-> TRUE]
    ELSE [tasks |-> <<>>, seq |-> 0, schema |-> TRUE]

\* The step of InitDB that fails, if any
InitFaults == {"none", "Getwd", "Open", "createTables"}

\* InitDB: the handle, the store and the error. Getwd and sql.Open fail
\* before DB is assigned; createTables fails after it.
initDB(fault, db, tbl, counter, exists) ==
    IF fault \in {"Getwd", "Open"}
    THEN [db |-> db, tasks |-> tbl, seq |-> counter, schema |-> exists,
          err |-> TRUE]
    ELSE IF fault = "createTables"
    THEN [db |-> "open", tasks |-> tbl, seq |-> counter, schema |-> exists,
          err |-> TRUE]
    ELSE LET c == createTables(tbl, counter, exists)
         IN  [db |-> "open", tasks |-> c.tasks, seq |-> c.seq,
              schema |-> c.schema, err |-> FALSE]

\* CloseDB: closes the handle unless it is nil
closeDB(db) == IF db # "nil" THEN "closed" ELSE db

---------------------------------------------------------------------------
(* State machine *)

\* What an operation leaves behind for the observer: its name, its text
\* arguments, the task pointer it was given, the instant and table it started
\* from, what it returned and printed, and for an export the output file it
\* found.
Outcome(op, args, ptr, err, msg, res, shown, panicked) ==
    [op |-> op, args |-> args, ptr |-> ptr, at |-> now, pre |-> tasks,
     err |-> err, msg |-> msg, res |-> res, shown |-> shown,
     panicked |-> panicked, prefile |-> NoFile]

\* Execute runs a command after InitDB has succeeded and before CloseDB
Running == DB = "open"

\* A runtime fault unwinds Execute, whose deferred CloseDB closes the handle
AfterFault(panicked, db) == IF panicked THEN "closed" ELSE db

\* No run of Execute is followed step by step
NoProcess ==
    [pc |-> "none", inited |-> "no", opened |-> FALSE, closes |-> 0,
     ran |-> <<>>, code |-> 0]

\* Number of goroutines that insert at the same time
MaxCallers == 3

Callers == 1..MaxCallers

\* Nobody holds the write lock of the database file
NoHolder == 0

\* No goroutine has called Exec yet
Idle == [p \in Callers |-> [pc |-> "idle", rowid |-> 0]]

\* The first process has run InitDB and nothing else
Started ==
    [op |-> "InitDB", args |-> <<>>, ptr |-> NilTask, at |-> 1,
     pre |-> <<>>, err |-> FALSE, msg |-> "", res |-> <<>>,
     shown |-> NothingShown, panicked |-> FALSE, prefile |-> NoFile]

\* An empty store; the first process has run InitDB
Init ==
    /\ tasks = <<>>
    /\ seq = 0
    /\ now = 1
    /\ DB = "open"
    /\ file = NoFile
    /\ last = Started
    /\ schema = TRUE
    /\ exec = NoProcess
    /\ lock = NoHolder
    /\ callers = Idle

\* The system clock advances
Tick ==
    /\ now < MaxTime
    /\ now' = now + 1
    /\ UNCHANGED <<tasks, seq, DB, file, last, execVars, concVars>>

\* A new process starts: InitDB opens the handle; CREATE TABLE IF NOT EXISTS
\* leaves an existing table as it is
InitDB ==
    LET r == initDB("none", DB, tasks, seq, schema)
    IN  /\ DB = "closed"
        /\ DB' = r.db
        /\ tasks' = r.tasks
        /\ seq' = r.seq
        /\ schema' = r.schema
        /\ last' = Outcome("InitDB", <<>>, NilTask, r.err, "", <<>>,
                           NothingShown, FALSE)
        /\ UNCHANGED <<now, file, exec, concVars>>

\* The process ends: the deferred CloseDB of Execute
CloseDB ==
    /\ DB = "open"
    /\ DB' = closeDB(DB)
    /\ last' = Outcome("CloseDB", <<>>, NilTask, FALSE, "", <<>>, NothingShown, FALSE)
    /\ UNCHANGED <<tasks, seq, now, file, execVars, concVars>>

\* tasker add [title] --description [description]
AddCmd(title, description) ==
    LET r == addTask(title, description, tasks, seq, DB, now)
    IN  /\ Running
        /\ Len(tasks) < MaxTasks
        /\ tasks' = r.tasks
        /\ seq' = r.seq
        /\ last' = Outcome("add", <<title, description>>, NilTask, r.err,
                           IF r.err THEN "Error adding task" ELSE "Task added",
                           <<>>, NothingShown, FALSE)
        /\ UNCHANGED <<now, DB, file, execVars, concVars>>

\* tasker list
ListCmd ==
    LET r == listTasks(tasks, DB)
    IN  /\ Running
        /\ last' = Outcome("list", <<>>, NilTask, r.err,
                           IF r.err THEN "Error listing tasks"
                           ELSE IF Len(r.tasks) = 0 THEN "No tasks found"
                           ELSE "",
                           r.tasks, NothingShown, FALSE)
        /\ UNCHANGED <<tasks, seq, now, DB, file, execVars, concVars>>

\* The task pointers a caller can hold: nil, the zero task findTaskById
\* returns for an unknown id, and the task of a stored row
TaskPtrs == {NilTask, <<ZeroTask>>} \cup {<<tasks[i]>> : i \in 1..Len(tasks)}

\* A call of markTaskAsDone
MarkTaskAsDone(ptr) ==
    LET r == markTaskAsDone(ptr, tasks, DB, now)
    IN  /\ Running
        /\ tasks' = r.tasks
        /\ DB' = AfterFault(r.panicked, DB)
        /\ last' = Outcome("markTaskAsDone", <<>>, ptr, FALSE, r.msg, <<>>,
                           r.shown, r.panicked)
        /\ UNCHANGED <<seq, now, file, execVars, concVars>>

\* tasker done [id]
DoneCmd(id) ==
    LET r == doneRun(id, tasks, DB, now)
    IN  /\ Running
        /\ tasks' = r.tasks
        /\ DB' = AfterFault(r.panicked, DB)
        /\ last' = Outcome("done", <<id>>, NilTask, FALSE, r.msg, <<>>,
                           r.shown, r.panicked)
        /\ UNCHANGED <<seq, now, file, execVars, concVars>>

\* tasker export --output [path], to a path whose file takes every write
ExportCmd(creatable) ==
    LET r == exportTasks(tasks, DB, file, creatable, TRUE)
    IN  /\ Running
        /\ file' = r.file
        /\ last' = [Outcome("export", <<>>, NilTask, r.err # "",
                            IF r.err # "" THEN r.err ELSE "Tasks exported successfully",
                            <<>>, NothingShown, FALSE) EXCEPT !.prefile = file]
        /\ UNCHANGED <<tasks, seq, now, DB, execVars, concVars>>

Next ==
    \/ Tick
    \/ InitDB
    \/ CloseDB
    \/ \E a \in AddArgs : AddCmd(a[1], a[2])
    \/ ListCmd
    \/ \E ptr \in TaskPtrs : MarkTaskAsDone(ptr)
    \/ \E id \in IdArgs : DoneCmd(id)
    \/ \E creatable \in BOOLEAN : ExportCmd(creatable)

Spec == Init /\ [][Next]_vars

---------------------------------------------------------------------------
(* The bytes of the CSV file: encoding/csv *)

\* Longest title of the round trip through the CSV file
MaxCsvLen == 2

\* The characters titles and descriptions are made of
CsvChars == {"a", Comma, Quote, LF, CR, Space}

RECURSIVE TextsUpTo(_)
TextsUpTo(n) ==
    IF n = 0 THEN {<<>>}
    ELSE LET shorter == TextsUpTo(n - 1)
         IN  shorter \cup {Append(t, c) : t \in shorter, c \in CsvChars}

CsvTitles == TextsUpTo(MaxCsvLen)
CsvDescriptions == TextsUpTo(1)

\* csv.Reader.readLine over the bytes lo..hi of the input: every line keeps
\* its line feed, a carriage return before the line feed is dropped, and so
\* is a carriage return that ends the input
RECURSIVE readLine(_, _, _)
readLine(bytes, lo, hi) ==
    IF lo > hi THEN <<>>
    ELSE IF lo = hi
    THEN IF bytes[lo] = CR /\ (lo = Len(bytes) \/ bytes[lo + 1] = LF)
         THEN <<>>
         ELSE <<bytes[lo]>>
    ELSE LET mid == (lo + hi) \div 2
         IN  readLine(bytes, lo, mid) \o readLine(bytes, mid + 1, hi)

\* The reader before the first byte
ReaderStart ==
    [mode |-> "start", field |-> <<>>, record |-> <<>>, records |-> <<>>,
     err |-> FALSE]

\* One byte of csv.Reader.readRecord with the default settings (no lazy
\* quotes, no trimming, no comment character). mode is "start" at the start
\* of a field, "bare" inside a non-quoted field, "quoted" inside a quoted
\* field and "quote" after a double quote met inside a quoted field. An
\* empty line is skipped; a double quote in a non-quoted field and a byte
\* other than a comma or a line feed after a closing quote are errors.
readByte(r, c) ==
    CASE r.err -> r
      [] r.mode = "start" /\ c = Quote -> [r EXCEPT !.mode = "quoted"]
      [] r.mode = "start" /\ c = LF /\ r.record = <<>> -> r
      [] r.mode \in {"start", "bare", "quote"} /\ c = LF ->
            [r EXCEPT !.mode = "start", !.field = <<>>, !.record = <<>>,
                      !.records = Append(r.records, Append(r.record, r.field))]
      [] r.mode \in {"start", "bare", "quote"} /\ c = Comma ->
            [r EXCEPT !.mode = "start", !.field = <<>>,
                      !.record = Append(r.record, r.field)]
      [] r.mode \in {"start", "bare"} /\ c = Quote -> [r EXCEPT !.err = TRUE]
      [] r.mode \in {"start", "bare"} /\ c \notin {Quote, LF, Comma} ->
            [r EXCEPT !.mode = "bare", !.field = Append(r.field, c)]
      [] r.mode = "quoted" /\ c = Quote -> [r EXCEPT !.mode = "quote"]
      [] r.mode = "quoted" /\ c # Quote -> [r EXCEPT !.field = Append(r.field, c)]
      [] r.mode = "quote" /\ c = Quote ->
            [r EXCEPT !.mode = "quoted", !.field = Append(r.field, Quote)]
      [] OTHER -> [r EXCEPT !.err = TRUE]

\* The reader after the bytes lo..hi of line; nothing is read after an error
RECURSIVE readRecords(_, _, _, _)
readRecords(r, line, lo, hi) ==
    IF r.err \/ lo > hi THEN r
    ELSE IF lo = hi THEN readByte(r, line[lo])
    ELSE LET mid == (lo + hi) \div 2
         IN  readRecords(readRecords(r, line, lo, mid), line, mid + 1, hi)

\* The end of the input: a quoted field left open is an error, a last line
\* without line feed is a record
readEOF(r) ==
    CASE r.err \/ r.mode = "quoted" -> [records |-> <<>>, err |-> TRUE]
      [] r.mode = "start" /\ r.record = <<>> ->
            [records |-> r.records, err |-> FALSE]
      [] OTHER -> [records |-> Append(r.records, Append(r.record, r.field)),
                   err |-> FALSE]

\* csv.Reader.ReadAll: the records, or an error when a quote is misplaced or
\* a record has not the number of fields of the first
ReadAll(bytes) ==
    LET line == readLine(bytes, 1, Len(bytes))
        r == readEOF(readRecords(ReaderStart, line, 1, Len(line)))
    IN  IF r.err THEN r
        ELSE IF \E k \in 1..Len(r.records) : Len(r.records[k]) # Len(r.records[1])
        THEN [records |-> <<>>, err |-> TRUE]
        ELSE r

\* readCSVFile: the records a csv.Reader finds in the exported file
readCSVFile(records) == ReadAll(FileBytes(records))

\* tasker add with a title and a description made of CsvChars, on the empty
\* table
CsvAddCmd(title, description) ==
    /\ tasks = <<>>
    /\ AddCmd(title, description)

\* The exported file is read back
ReadCSVFile ==
    LET r == readCSVFile(file)
    IN  /\ Running
        /\ file # NoFile
        /\ last.op = "export"
        /\ last' = Outcome("readCSVFile", <<>>, NilTask, r.err, "",
                           r.records, NothingShown, FALSE)
        /\ UNCHANGED <<tasks, seq, now, DB, file, execVars, concVars>>

NextCsv ==
    \/ \E title \in CsvTitles, description \in CsvDescriptions :
          CsvAddCmd(title, description)
    \/ ExportCmd(TRUE)
    \/ ReadCSVFile

SpecCsv == Init /\ [][NextCsv]_vars

---------------------------------------------------------------------------
(* Execute: one process from InitDB to its exit *)

\* A process that has just entered Execute
NewProcess == [NoProcess EXCEPT !.pc = "InitDB"]

\* Mutation: the error of InitDB is printed and Execute goes on
afterInitDBGoesOn(err) == "rootCmd"

\* Execute after InitDB returned: os.Exit(1) on an error, rootCmd.Execute
\* otherwise
afterInitDB(err) == IF err THEN "exited" ELSE "rootCmd"

\* What Execute remembers of the command rootCmd.Execute has run: the
\* command, the handle it found and the CloseDB calls made before it
Ran(cmd) ==
    [exec EXCEPT !.pc = "return",
                 !.ran = Append(@, [cmd |-> cmd, db |-> DB, closes |-> exec.closes])]

\* database.InitDB called by Execute, then the check of its error
ExecuteInitDB(fault) ==
    LET r == initDB(fault, DB, tasks, seq, schema)
        pc == afterInitDB(r.err)
    IN  /\ exec.pc = "InitDB"
        /\ DB' = r.db
        /\ tasks' = r.tasks
        /\ seq' = r.seq
        /\ schema' = r.schema
        /\ exec' = [exec EXCEPT !.pc = pc,
                                !.inited = IF r.err THEN "failed" ELSE "ok",
                                !.opened = (r.db = "open"),
                                !.code = IF pc = "exited" THEN 1 ELSE 0]
        /\ UNCHANGED <<now, file, last, concVars>>

\* rootCmd.Execute runs tasker add
ExecuteAdd(title, description) ==
    LET r == addTask(title, description, tasks, seq, DB, now)
    IN  /\ exec.pc = "rootCmd"
        /\ Len(tasks) < MaxTasks
        /\ tasks' = r.tasks
        /\ seq' = r.seq
        /\ exec' = Ran("add")
        /\ UNCHANGED <<now, DB, file, last, schema, concVars>>

\* rootCmd.Execute runs tasker list
ExecuteList ==
    /\ exec.pc = "rootCmd"
    /\ exec' = Ran("list")
    /\ UNCHANGED <<tasks, seq, now, DB, file, last, schema, concVars>>

\* rootCmd.Execute runs tasker done; a runtime fault in the command unwinds
\* Execute, whose deferred CloseDB runs before the process dies
ExecuteDone(id) ==
    LET r == doneRun(id, tasks, DB, now)
    IN  /\ exec.pc = "rootCmd"
        /\ tasks' = r.tasks
        /\ DB' = AfterFault(r.panicked, DB)
        /\ exec' = IF r.panicked
                   THEN [Ran("done") EXCEPT !.pc = "exited", !.code = 2,
                                            !.closes = @ + 1]
                   ELSE Ran("done")
        /\ UNCHANGED <<seq, now, file, last, schema, concVars>>

\* rootCmd.Execute runs tasker export
ExecuteExport ==
    LET r == exportTasks(tasks, DB, file, TRUE, TRUE)
    IN  /\ exec.pc = "rootCmd"
        /\ file' = r.file
        /\ exec' = Ran("export")
        /\ UNCHANGED <<tasks, seq, now, DB, last, schema, concVars>>

\* rootCmd.Execute returns an error (unknown command, wrong arguments)
\* without running a command: os.Exit(1) ends the process at once
ExecuteUsageError ==
    /\ exec.pc = "rootCmd"
    /\ exec' = [exec EXCEPT !.pc = "exited", !.code = 1]
    /\ UNCHANGED <<tasks, seq, now, DB, file, last, schema, concVars>>

\* Execute returns: the deferred CloseDB runs
ExecuteReturn ==
    /\ exec.pc = "return"
    /\ DB' = closeDB(DB)
    /\ exec' = [exec EXCEPT !.pc = "exited",
                            !.closes = IF DB # "nil" THEN @ + 1 ELSE @]
    /\ UNCHANGED <<tasks, seq, now, file, last, schema, concVars>>

\* The next process starts with a nil handle on the same tasker.db
ExecuteStart ==
    /\ exec.pc = "exited"
    /\ DB' = "nil"
    /\ exec' = NewProcess
    /\ UNCHANGED <<tasks, seq, now, file, last, schema, concVars>>

\* No tasker.db yet; the first process has entered Execute
InitExec ==
    /\ tasks = <<>>
    /\ seq = 0
    /\ now = 1
    /\ DB = "nil"
    /\ file = NoFile
    /\ last = Started
    /\ schema = FALSE
    /\ exec = NewProcess
    /\ lock = NoHolder
    /\ callers = Idle

NextExec ==
    \/ \E fault \in InitFaults : ExecuteInitDB(fault)
    \/ \E a \in AddArgs : ExecuteAdd(a[1], a[2])
    \/ ExecuteList
    \/ \E id \in IdArgs : ExecuteDone(id)
    \/ ExecuteExport
    \/ ExecuteUsageError
    \/ ExecuteReturn
    \/ ExecuteStart

SpecExec == InitExec /\ [][NextExec]_vars

---------------------------------------------------------------------------
(* Goroutines that insert at the same time through database.DB *)

\* The title goroutine p inserts
TitleOf(p) == <<"T">> \o Itoa(p)

\* Mutation: a writer does not wait for the write lock of the file
writeLockGrantedAlways(holder, p) == TRUE

\* SQLite lets one connection write at a time: the INSERT of p starts when
\* no other connection holds the write lock of tasker.db
writeLockGranted(holder, p) == holder \in {NoHolder, p}

\* database.DB.Exec of the INSERT begins: the connection takes the write
\* lock and reads the AUTOINCREMENT counter
ExecBegin(p) ==
    /\ Running
    /\ callers[p].pc = "idle"
    /\ writeLockGranted(lock, p)
    /\ lock' = p
    /\ callers' = [callers EXCEPT ![p] = [pc |-> "writing",
                                          rowid |-> NextRowId(seq)]]
    /\ UNCHANGED <<tasks, seq, now, DB, file, last, execVars>>

\* The INSERT writes its row and the counter, commits and gives the lock
\* back; Exec returns a nil error
ExecCommit(p) ==
    /\ callers[p].pc = "writing"
    /\ tasks' = Append(tasks, NewRow(callers[p].rowid, TitleOf(p), <<>>, now))
    /\ seq' = callers[p].rowid
    /\ lock' = IF lock = p THEN NoHolder ELSE lock
    /\ callers' = [callers EXCEPT ![p].pc = "ok"]
    /\ UNCHANGED <<now, DB, file, last, execVars>>

\* The lock stays taken until the busy timeout ends: Exec returns
\* "database is locked" and nothing is written
ExecBusy(p) ==
    /\ Running
    /\ callers[p].pc = "idle"
    /\ ~writeLockGranted(lock, p)
    /\ callers' = [callers EXCEPT ![p].pc = "failed"]
    /\ UNCHANGED <<tasks, seq, now, DB, file, last, lock, execVars>>

NextConc ==
    \/ Tick
    \/ \E p \in Callers : ExecBegin(p)
    \/ \E p \in Callers : ExecCommit(p)
    \/ \E p \in Callers : ExecBusy(p)

SpecConc == Init /\ [][NextConc]_vars

---------------------------------------------------------------------------
(* The functions of package cmd called on any handle, open or closed, as *)
(* the tests call them after database.DB.Close                           *)

\* addTask
CallAddTask(title, description) ==
    LET r == addTask(title, description, tasks, seq, DB, now)
    IN  /\ Len(tasks) < MaxTasks
        /\ tasks' = r.tasks
        /\ seq' = r.seq
        /\ last' = Outcome("addTask", <<title, description>>, NilTask, r.err,
                           "", <<>>, NothingShown, FALSE)
        /\ UNCHANGED <<now, DB, file, execVars, concVars>>

\* findTaskById; the pointer it returns is kept as the result
CallFindTaskById(id) ==
    LET r == findTaskById(id, tasks, DB)
    IN  /\ tasks' = Query(tasks, DB)
        /\ last' = Outcome("findTaskById", <<id>>, NilTask, r.err, "",
                           r.task, NothingShown, FALSE)
        /\ UNCHANGED <<seq, now, DB, file, execVars, concVars>>

\* listTasks
CallListTasks ==
    LET r == listTasks(tasks, DB)
    IN  /\ tasks' = Query(tasks, DB)
        /\ last' = Outcome("listTasks", <<>>, NilTask, r.err, "", r.tasks,
                           NothingShown, FALSE)
        /\ UNCHANGED <<seq, now, DB, file, execVars, concVars>>

\* markTaskAsDone: it has no result, so no error reaches the caller
CallMarkTaskAsDone(ptr) ==
    LET r == markTaskAsDone(ptr, tasks, DB, now)
    IN  /\ tasks' = r.tasks
        /\ DB' = AfterFault(r.panicked, DB)
        /\ last' = Outcome("markTaskAsDone", <<>>, ptr, FALSE, r.msg, <<>>,
                           r.shown, r.panicked)
        /\ UNCHANGED <<seq, now, file, execVars, concVars>>

\* exportTasks and the message of exportCmd.Run; the arguments kept are
\* what the output path allowed
CallExportTasks(creatable, writable) ==
    LET r == exportTasks(tasks, DB, file, creatable, writable)
    IN  /\ tasks' = Query(tasks, DB)
        /\ file' = r.file
        /\ last' = [Outcome("exportTasks", <<creatable, writable>>, NilTask,
                            r.err # "",
                            IF r.err # "" THEN r.err
                            ELSE "Tasks exported successfully",
                            <<>>, NothingShown, FALSE) EXCEPT !.prefile = file]
        /\ UNCHANGED <<seq, now, DB, execVars, concVars>>

NextCalls ==
    \/ InitDB
    \/ CloseDB
    \/ \E a \in AddArgs : CallAddTask(a[1], a[2])
    \/ \E id \in IdArgs : CallFindTaskById(id)
    \/ CallListTasks
    \/ \E ptr \in TaskPtrs : CallMarkTaskAsDone(ptr)
    \/ \E creatable, writable \in BOOLEAN : CallExportTasks(creatable, writable)

SpecCalls == Init /\ [][NextCalls]_vars

---------------------------------------------------------------------------
(* Done commands of several processes on the same tasker.db, each with a *)
(* handle of its own: doneCmd.Run step by step                           *)

\* The ids the done commands ask for
DoneIds == {Itoa(1), Itoa(2)}

\* findTaskById and the checks of doneCmd.Run: the command ends unless the
\* task exists and is not done, and then holds the task it has found
DoneFind(p, id) ==
    LET f == findTaskById(id, tasks, DB)
        ends == f.err \/ f.task[1].id = 0 \/ f.task[1].done
    IN  /\ Running
        /\ callers[p].pc = "idle"
        /\ callers' = [callers EXCEPT ![p] =
              [pc |-> IF ends THEN "finished" ELSE "found",
               rowid |-> IdOfText(id),
               task |-> IF ends THEN NilTask ELSE f.task,
               at |-> 0]]
        /\ UNCHANGED <<tasks, seq, now, DB, file, last, lock, execVars>>

\* markTaskAsDone on the task found earlier; the fault of printTask ends this
\* process after its UPDATE and leaves the handles of the others alone
DoneMark(p) ==
    LET r == markTaskAsDone(callers[p].task, tasks, DB, now)
    IN  /\ callers[p].pc = "found"
        /\ tasks' = r.tasks
        /\ callers' = [callers EXCEPT
              ![p].pc = IF r.panicked THEN "faulted" ELSE "finished",
              ![p].at = now]
        /\ UNCHANGED <<seq, now, DB, file, last, lock, execVars>>

NextDone ==
    \/ Tick
    \/ \E a \in AddArgs : AddCmd(a[1], a[2])
    \/ \E p \in Callers, id \in DoneIds : DoneFind(p, id)
    \/ \E p \in Callers : DoneMark(p)

SpecDone == Init /\ [][NextDone]_vars

---------------------------------------------------------------------------
(* Properties *)

HasId(tbl, rowid) == \E i \in 1..Len(tbl) : tbl[i].id = rowid

HasIncomplete(tbl, rowid) == \E i \in 1..Len(tbl) : tbl[i].id = rowid /\ ~tbl[i].done

HasComplete(tbl, rowid) == \E i \in 1..Len(tbl) : tbl[i].id = rowid /\ tbl[i].done

\* The id the last operation handed to the UPDATE of markTaskAsDone, when it
\* was a call of markTaskAsDone with a task
DirectMarkId ==
    IF last.op = "markTaskAsDone" /\ last.ptr # NilTask THEN last.ptr[1].id
    ELSE NoRowId

\* The id the last operation asked for, when it was the done command
DoneCmdId == IF last.op = "done" THEN IdOfText(last.args[1]) ELSE NoRowId

\* C1: a successful add appends exactly one row, with the given title and
\* description, done false and completed_at absent, under an id no row had,
\* and findTaskById on that id returns this row.
AddCreatesTask ==
    (last.op = "add" /\ ~last.err) =>
        /\ Len(tasks) = Len(last.pre) + 1
        /\ SubSeq(tasks, 1, Len(last.pre)) = last.pre
        /\ LET t == tasks[Len(tasks)]
           IN  /\ t.title = last.args[1]
               /\ t.description = last.args[2]
               /\ t.done = FALSE
               /\ t.completed_at = NilTime
               /\ ~HasId(last.pre, t.id)
               /\ findTaskById(Itoa(t.id), tasks, "open")
                    = [task |-> <<t>>, err |-> FALSE]

AddCreatesTaskWitness ==
    /\ last.op = "add" /\ ~last.err
    /\ last.args = << <<>>, <<>> >>
    /\ Len(last.pre) = 1
    /\ Len(tasks) = 2

\* C2: in every state of a running command, findTaskById on an id no stored
\* task has signals an error and does not return the zero-valued task as its
\* result.
FindUnknownIdSignalsNotFound ==
    \A id \in IdArgs :
        (Running /\ ~HasId(tasks, IdOfText(id))) =>
            LET r == findTaskById(id, tasks, DB)
            IN  /\ r.err
                /\ r.task # <<ZeroTask>>

\* C3: markTaskAsDone on a stored incomplete task leaves that task done with
\* completed_at the instant of the call, whether it is called directly or by
\* the done command.
MarkDoneCompletesTask ==
    \A rowid \in {DirectMarkId, DoneCmdId} :
        HasIncomplete(last.pre, rowid) =>
            \A i \in 1..Len(tasks) :
                tasks[i].id = rowid =>
                    /\ tasks[i].done
                    /\ tasks[i].completed_at = <<last.at>>

MarkDoneCompletesTaskWitness ==
    /\ HasIncomplete(last.pre, DirectMarkId)
    /\ HasComplete(tasks, DirectMarkId)
    /\ last.at = 2
    /\ \E i \in 1..Len(tasks) : tasks[i].id = DirectMarkId /\ tasks[i].created_at = 1

\* C4: markTaskAsDone called directly on a task that is already complete
\* keeps done true and replaces completed_at by the instant of the new call.
RemarkRefreshesCompletedAt ==
    HasComplete(last.pre, DirectMarkId) =>
        \A i \in 1..Len(tasks) :
            tasks[i].id = DirectMarkId =>
                /\ tasks[i].done
                /\ tasks[i].completed_at = <<last.at>>

RemarkRefreshesCompletedAtWitness ==
    /\ HasComplete(last.pre, DirectMarkId)
    /\ \E i \in 1..Len(tasks) :
          /\ tasks[i].id = DirectMarkId
          /\ last.pre[i].completed_at = <<1>>
          /\ tasks[i].completed_at = <<2>>

\* C5: the done command on a task that is already complete reports "already
\* done" and leaves the table as it was.
DoneCmdOnCompleteIsNoOp ==
    HasComplete(last.pre, DoneCmdId) =>
        /\ last.msg = "Task already done"
        /\ tasks = last.pre

DoneCmdOnCompleteIsNoOpWitness ==
    /\ HasComplete(last.pre, DoneCmdId)
    /\ last.msg = "Task already done"
    /\ \E i \in 1..Len(tasks) :
          tasks[i].id = DoneCmdId /\ tasks[i].completed_at = <<1>> /\ last.at = 2

\* C6: the done command reports "task not found" exactly when no stored task
\* has the requested id, and then leaves the table as it was.
DoneCmdNotFound ==
    last.op = "done" =>
        /\ (last.msg = "Task not found") <=> ~HasId(last.pre, DoneCmdId)
        /\ (last.msg = "Task not found") => tasks = last.pre

DoneCmdNotFoundWitness ==
    /\ last.op = "done"
    /\ last.msg = "Task not found"
    /\ Len(tasks) = 2
    /\ last.args[1] = <<"0">>

\* C7: the done command on an incomplete task displays the updated task:
\* the display completes and shows the completed_at written to the table.
DoneCmdShowsUpdatedTask ==
    HasIncomplete(last.pre, DoneCmdId) =>
        /\ ~last.panicked
        /\ Len(last.shown) = 1
        /\ \A i \in 1..Len(tasks) :
              tasks[i].id = DoneCmdId =>
                  /\ tasks[i].done
                  /\ last.shown[1].completed_at = tasks[i].completed_at

\* C8: a task that is done is done after every step.
DoneIsMonotonic ==
    [][\A i \in 1..Len(tasks) :
          tasks[i].done => HasComplete(tasks', tasks[i].id)]_vars

DoneIsMonotonicWitness ==
    /\ HasComplete(last.pre, DirectMarkId)
    /\ HasComplete(tasks, DirectMarkId)
    /\ HasIncomplete(tasks, 2)

\* C9: in every reachable state a task has completed_at absent iff it is not
\* done.
CompletedAtIffDone ==
    \A i \in 1..Len(tasks) : (tasks[i].completed_at = NilTime) <=> ~tasks[i].done

CompletedAtIffDoneWitness ==
    /\ Len(tasks) = 2
    /\ last.op = "done"
    /\ tasks[1].done /\ tasks[1].completed_at # NilTime
    /\ ~tasks[2].done /\ tasks[2].completed_at = NilTime

IdsOf(tbl) == [i \in 1..Len(tbl) |-> tbl[i].id]

Distinct(ids) == \A i, j \in 1..Len(ids) : i # j => ids[i] # ids[j]

\* C10: ids are pairwise distinct in every state, and every step keeps each
\* row under its id and removes none: the ids before are the first ids after.
IdsUniqueAndStable ==
    /\ [](Distinct(IdsOf(tasks)))
    /\ [][/\ Len(tasks') >= Len(tasks)
          /\ SubSeq(IdsOf(tasks'), 1, Len(tasks)) = IdsOf(tasks)]_vars

IdsUniqueAndStableWitness ==
    /\ Len(tasks) = 2
    /\ tasks[1].id # tasks[2].id
    /\ last.op = "markTaskAsDone"
    /\ HasComplete(tasks, 2)

\* The last operation was an export that returned no error
Exported == last.op = "export" /\ ~last.err

\* C11: the list command after N successful adds on a new store returns N
\* tasks without error, their ids pairwise distinct and in the order of
\* creation; on an empty store it returns the empty sequence.
ListReturnsAllInOrder ==
    last.op = "list" =>
        /\ ~last.err
        /\ Len(last.res) = seq
        /\ \A i, j \in 1..Len(last.res) :
              i < j => /\ last.res[i].id < last.res[j].id
                       /\ last.res[i].created_at <= last.res[j].created_at
        /\ \A i \in 1..Len(last.res) : HasId(last.pre, last.res[i].id)
        /\ (seq = 0 => last.res = <<>>)

ListReturnsAllInOrderWitness ==
    /\ last.op = "list"
    /\ seq = 2
    /\ Len(last.res) = 2
    /\ last.res[1].created_at < last.res[2].created_at

\* C12: a successful export leaves the header followed by one record per
\* stored task, in the order listTasks returns them; with no task the file
\* holds the header alone.
ExportWritesHeaderAndRows ==
    Exported =>
        LET l == listTasks(tasks, "open").tasks
        IN  /\ Len(file) = Len(l) + 1
            /\ file[1] = Header
            /\ \A i \in 1..Len(l) :
                  /\ file[i + 1][1] = Itoa(l[i].id)
                  /\ file[i + 1][2] = l[i].title
                  /\ file[i + 1][3] = l[i].description

ExportWritesHeaderAndRowsWitness ==
    /\ Exported
    /\ Len(tasks) = 2
    /\ Len(file) = 3
    /\ file[2][2] # file[3][2]

ExportOfNoTasksWitness ==
    /\ Exported
    /\ tasks = <<>>
    /\ file = <<Header>>

\* C13: in every exported record the Done field is "true" when the task is
\* done and "false" otherwise, and the Completed At field is empty exactly
\* when completed_at is absent.
ExportDoneAndCompletedFields ==
    Exported =>
        \A i \in 1..Len(tasks) :
            /\ file[i + 1][4] = (IF tasks[i].done THEN <<"t", "r", "u", "e">>
                                 ELSE <<"f", "a", "l", "s", "e">>)
            /\ (file[i + 1][6] = <<>>) <=> (tasks[i].completed_at = NilTime)

ExportDoneAndCompletedFieldsWitness ==
    /\ Exported
    /\ Len(tasks) = 2
    /\ tasks[1].done /\ file[2][6] # <<>>
    /\ ~tasks[2].done /\ file[3][6] = <<>>

\* C14: an export whose output file cannot be created returns the error
\* "failed to create CSV file", writes nothing and changes no task.
ExportCreateFailure ==
    [][ExportCmd(FALSE) =>
          /\ last'.err
          /\ last'.msg = "failed to create CSV file"
          /\ file' = file
          /\ tasks' = tasks /\ seq' = seq]_vars

ExportCreateFailureWitness ==
    /\ last.op = "export"
    /\ last.err
    /\ last.msg = "failed to create CSV file"
    /\ Len(tasks) = 2
    /\ file = <<Header>>
    /\ last.prefile = file

\* C15: after a successful export the file is what the export of the same
\* tasks onto no file gives, whatever the file held before.
ExportOverwrites ==
    Exported => file = exportTasks(tasks, "open", NoFile, TRUE, TRUE).file

ExportOverwritesWitness ==
    /\ Exported
    /\ Len(last.prefile) = 2
    /\ Len(file) = 3
    /\ last.prefile[2] # file[2]

\* A carriage return is immediately followed by a line feed somewhere in s
HasCRLF(s) == \E i \in 1..(Len(s) - 1) : s[i] = CR /\ s[i + 1] = LF

RECURSIVE WithoutCRBeforeLF(_)
WithoutCRBeforeLF(s) ==
    IF s = <<>> THEN <<>>
    ELSE IF Len(s) >= 2 /\ s[1] = CR /\ s[2] = LF THEN WithoutCRBeforeLF(Tail(s))
    ELSE <<s[1]>> \o WithoutCRBeforeLF(Tail(s))

\* The exported file of the current tasks has been read back
ReadBack == last.op = "readCSVFile"

\* C16 as stated: reading the exported file back gives exactly the title
\* and the description of every task, whatever characters they contain.
CsvRoundTripExact ==
    ReadBack =>
        /\ ~last.err
        /\ Len(last.res) = Len(tasks) + 1
        /\ \A i \in 1..Len(tasks) :
              /\ last.res[i + 1][2] = tasks[i].title
              /\ last.res[i + 1][3] = tasks[i].description

\* C16: reading the exported file back gives the title and the description
\* of every task with each carriage return that stands before a line feed
\* removed, hence exactly the original when it has no such pair; commas,
\* double quotes, lone line feeds and lone carriage returns come back as
\* they were.
CsvRoundTripUpToCRLF ==
    ReadBack =>
        /\ ~last.err
        /\ Len(last.res) = Len(tasks) + 1
        /\ last.res[1] = Header
        /\ \A i \in 1..Len(tasks) :
              /\ Len(last.res[i + 1]) = Len(Header)
              /\ last.res[i + 1][2] = WithoutCRBeforeLF(tasks[i].title)
              /\ last.res[i + 1][3] = WithoutCRBeforeLF(tasks[i].description)
              /\ ~HasCRLF(tasks[i].title) => last.res[i + 1][2] = tasks[i].title
              /\ ~HasCRLF(tasks[i].description) =>
                    last.res[i + 1][3] = tasks[i].description

CsvRoundTripUpToCRLFWitness ==
    /\ ReadBack
    /\ Len(tasks) = 1
    /\ tasks[1].title = <<Quote, LF>>
    /\ tasks[1].description = <<Comma>>
    /\ last.res[2][2] = <<Quote, LF>>
    /\ last.res[2][3] = <<Comma>>

\* C17: InitDB on a store that has the tasks table leaves every row and the
\* AUTOINCREMENT counter as they were.
InitDBIsIdempotent ==
    [][InitDB /\ schema => tasks' = tasks /\ seq' = seq /\ schema']_vars

\* InitDB has run on a table of two tasks, one of them done, and the next id
\* is still the third
InitDBIsIdempotentWitness ==
    /\ last.op = "InitDB"
    /\ ~last.err
    /\ Len(last.pre) = 2
    /\ last.pre[1].done
    /\ tasks = last.pre
    /\ NextRowId(seq) = 3

\* The same on the path a process takes: InitDB inside Execute keeps the
\* rows of the runs before it
ExecuteInitDBIsIdempotent ==
    [][\A fault \in InitFaults :
          ExecuteInitDB(fault) /\ schema => tasks' = tasks /\ seq' = seq]_vars

\* C18: a process that has left Execute with the handle opened has called
\* CloseDB exactly once.
HandleReleasedOnceOnExit ==
    exec.pc = "exited" =>
        /\ exec.opened => exec.closes = 1 /\ DB = "closed"
        /\ ~exec.opened => exec.closes = 0

\* The exits of Execute on which CloseDB does run once: the normal return
\* and the unwinding after a runtime fault
HandleReleasedOnReturn ==
    exec.pc = "exited" /\ exec.code # 1 => exec.closes = 1 /\ DB = "closed"

\* C19: after a failed InitDB the process has exited without running a
\* command; a command runs only after a successful InitDB, on the open
\* handle and before any CloseDB.
InitFailureIsFatal ==
    /\ exec.inited = "failed" => exec.pc = "exited" /\ exec.ran = <<>>
    /\ exec.pc \in {"rootCmd", "return"} => exec.inited = "ok" /\ DB = "open"
    /\ \A i \in 1..Len(exec.ran) :
          /\ exec.inited = "ok"
          /\ exec.ran[i].db = "open"
          /\ exec.ran[i].closes = 0
    /\ Len(exec.ran) <= 1

\* InitDB has failed after the handle was opened, on a store an earlier
\* process has filled
InitFailureIsFatalWitness ==
    /\ exec.inited = "failed"
    /\ exec.opened
    /\ exec.pc = "exited"
    /\ exec.code = 1
    /\ Len(tasks) = 2

\* A command has run and the process has returned
CommandRanWitness ==
    /\ exec.pc = "exited"
    /\ Len(exec.ran) = 1
    /\ exec.ran[1].cmd = "add"
    /\ exec.closes = 1

\* The goroutines whose Exec returned a nil error
Succeeded == {p \in Callers : callers[p].pc = "ok"}

\* C20: of the creates issued at the same time, each that reports success has
\* added exactly one task, the ids are pairwise distinct, and the table holds
\* as many tasks as creates have succeeded.
ConcurrentCreates ==
    /\ Len(tasks) = Cardinality(Succeeded)
    /\ Distinct(IdsOf(tasks))
    /\ \A p \in Succeeded :
          Cardinality({i \in 1..Len(tasks) :
                          /\ tasks[i].title = TitleOf(p)
                          /\ tasks[i].id = callers[p].rowid}) = 1

\* Two creates have succeeded in the reverse order of the goroutines and a
\* third has found the file locked
ConcurrentCreatesWitness ==
    /\ Cardinality(Succeeded) = 2
    /\ \E p \in Callers : callers[p].pc = "failed"
    /\ tasks[1].title = TitleOf(2)
    /\ tasks[2].title = TitleOf(1)

\* C21: addTask, findTaskById and listTasks called on the closed handle
\* return an error and no result, and the table stays as it was.
ClosedHandleFails ==
    (DB = "closed" /\ last.op \in {"addTask", "findTaskById", "listTasks"}) =>
        /\ last.err
        /\ last.res = <<>>
        /\ tasks = last.pre

ClosedHandleFailsWitness ==
    /\ DB = "closed"
    /\ last.op = "addTask"
    /\ last.err
    /\ Len(tasks) = 1
    /\ tasks = last.pre

\* markTaskAsDone was called with a task on the closed handle, so that its
\* UPDATE failed
UpdateFailed ==
    /\ last.op = "markTaskAsDone"
    /\ last.ptr # NilTask
    /\ DB = "closed"
    /\ ~last.panicked

\* C22: when the UPDATE of markTaskAsDone fails, the caller gets the error,
\* no success is reported and the table stays as it was.
MarkDoneSignalsWriteFailure ==
    UpdateFailed =>
        /\ last.err
        /\ last.msg # "Task marked as done"
        /\ tasks = last.pre

\* What does hold when the UPDATE fails: the error is printed, no success is
\* reported, nothing is displayed and the table stays as it was
MarkDonePrintsWriteFailure ==
    UpdateFailed =>
        /\ last.msg = "Error marking task as done"
        /\ last.shown = NothingShown
        /\ tasks = last.pre

\* C23: markTaskAsDone called with a task whose id no row has reports no
\* success and changes no row.
MarkDoneUnknownIdFails ==
    (last.op = "markTaskAsDone" /\ last.ptr # NilTask
        /\ ~HasId(last.pre, last.ptr[1].id)) =>
        /\ last.msg # "Task marked as done"
        /\ tasks = last.pre

\* The id of the row the last operation marked or asked to mark
MarkedId == IF last.op = "done" THEN DoneCmdId ELSE DirectMarkId

\* C24: markTaskAsDone, called directly or by the done command, keeps the
\* number and order of the rows, every field of every row under another id,
\* and the id, title, description and created_at of the row under its id.
MarkDoneFrame ==
    last.op \in {"markTaskAsDone", "done"} =>
        /\ Len(tasks) = Len(last.pre)
        /\ \A i \in 1..Len(tasks) :
              IF last.pre[i].id = MarkedId
              THEN [tasks[i] EXCEPT !.done = last.pre[i].done,
                                    !.completed_at = last.pre[i].completed_at]
                     = last.pre[i]
              ELSE tasks[i] = last.pre[i]

MarkDoneFrameWitness ==
    /\ last.op = "markTaskAsDone"
    /\ Len(tasks) = 2
    /\ MarkedId = 1
    /\ ~last.pre[1].done /\ tasks[1].done
    /\ tasks[1].title = <<"a">> /\ tasks[1].created_at = 1 /\ last.at = 2
    /\ ~tasks[2].done
    /\ tasks[2] = last.pre[2]

\* C25: listTasks, findTaskById and exportTasks leave the table as it was,
\* on the open handle and on the closed one.
ReadsLeaveTableUnchanged ==
    last.op \in {"listTasks", "findTaskById", "exportTasks"} =>
        tasks = last.pre

ReadsLeaveTableUnchangedWitness ==
    /\ last.op = "listTasks"
    /\ ~last.err
    /\ Len(last.res) = 2
    /\ last.res[1].done /\ ~last.res[2].done
    /\ tasks = last.pre

\* The reads fail on the closed handle and still leave the table
FailedReadWitness ==
    /\ last.op = "exportTasks"
    /\ last.err
    /\ DB = "closed"
    /\ Len(tasks) = 2

\* C26: no done command ends in a runtime fault, whether the task is
\* missing, incomplete or complete; a task with no completed_at is displayed
\* to the end.
DoneCmdNeverFaults == last.op = "done" => ~last.panicked

\* C27: the k-th row of a store that started empty has id k, the id a
\* successful add assigns is the number of rows it leaves, and no row has
\* id 0.
IdsAreSequentialFromOne ==
    /\ \A k \in 1..Len(tasks) : tasks[k].id = k
    /\ \A k \in 1..Len(tasks) : tasks[k].id # ZeroTask.id
    /\ (last.op = "add" /\ ~last.err) =>
          /\ Len(tasks) = Len(last.pre) + 1
          /\ tasks[Len(tasks)].id = Len(tasks)
    /\ seq = Len(tasks)

IdsAreSequentialFromOneWitness ==
    /\ last.op = "add"
    /\ ~last.err
    /\ Len(last.pre) = 1
    /\ tasks[1].id = 1
    /\ tasks[2].id = 2

\* C29: an export that reports success has left the header and one record
\* per task in the file; an export to a file that takes no write reports an
\* error.
ExportSuccessMeansWritten ==
    last.op = "exportTasks" =>
        /\ ~last.err => Len(file) = Len(tasks) + 1 /\ file[1] = Header
        /\ (DB = "open" /\ last.args = <<TRUE, FALSE>>) => last.err

\* What the export to a file that takes no write does: success is reported
\* over an empty file
ExportIgnoresFlushError ==
    (last.op = "exportTasks" /\ DB = "open" /\ last.args = <<TRUE, FALSE>>) =>
        /\ ~last.err
        /\ last.msg = "Tasks exported successfully"
        /\ file = <<>>

\* C30: an export on a handle that cannot fetch the tasks returns "failed
\* to fetch tasks" and leaves the output file as it found it, whatever the
\* output path allows.
ExportFetchesFirst ==
    (last.op = "exportTasks" /\ DB = "closed") =>
        /\ last.err
        /\ last.msg = "failed to fetch tasks"
        /\ file = last.prefile

ExportFetchesFirstWitness ==
    /\ last.op = "exportTasks"
    /\ DB = "closed"
    /\ last.args = <<TRUE, TRUE>>
    /\ last.msg = "failed to fetch tasks"
    /\ Len(file) = 2
    /\ file = last.prefile

\* The done commands that have run their UPDATE on the row under rowid
Updaters(rowid) ==
    {p \in Callers : /\ callers[p].pc \in {"finished", "faulted"}
                     /\ callers[p].rowid = rowid
                     /\ callers[p].at # 0}

\* C28: in every interleaving of done commands, a row some command has
\* updated is done with completed_at present, and completed_at is the instant
\* of the latest of these updates: a later command overwrites what an
\* earlier one wrote.
DoneRaceEndsDone ==
    \A i \in 1..Len(tasks) :
        Updaters(tasks[i].id) # {} =>
            /\ tasks[i].done
            /\ tasks[i].completed_at # NilTime
            /\ \E p \in Updaters(tasks[i].id) :
                  tasks[i].completed_at = <<callers[p].at>>
            /\ \A p \in Updaters(tasks[i].id) :
                  callers[p].at <= tasks[i].completed_at[1]

\* Two done commands have both found task 1 incomplete and both run the
\* UPDATE, the second one later than the first
DoneRaceEndsDoneWitness ==
    /\ Cardinality(Updaters(1)) = 2
    /\ \A p \in Updaters(1) : ~callers[p].task[1].done
    /\ \E p, q \in Updaters(1) : callers[p].at = 1 /\ callers[q].at = 2
    /\ tasks[1].completed_at = <<2>>

====
